---- MODULE Spec2Model ----
(***************************************************************************)
(* Watchlist / history model of stock-tui-app.                             *)
(*                                                                         *)
(* The persisted JSON document (~/.stock_tui_config.json) is the variable  *)
(* config; every handler loads it, edits the lists the way the Python      *)
(* code does, merges the result back with save_config and refreshes the   *)
(* ListView.  Python lists are sequences; Python indices are 0-based and   *)
(* are kept 0-based in every operator that takes or returns an index.      *)
(***************************************************************************)
EXTENDS Integers, Sequences, FiniteSets, TLC

VARIABLES
    config,     \* the file at CONFIG_PATH: the JSON object one json.dump left in
                \* it, or (in StoreSpec) its text, character by character
    children,   \* ticker_symbol of the ListView items, top to bottom
                \* (in StoreSpec: one list per app instance)
    index,      \* ListView.index, NoIndex for None (in StoreSpec: one per instance)
    steps,      \* operations performed on a long history; in NoticeSpec and
                \* FetchSpec the mode switches and resizes of the chart; in
                \* StoreSpec the writes of the file that failed
    last,       \* the last handler that ran, with the lists it loaded
    value,      \* text of the ticker Input
    callers,    \* per app instance using the config store: its place in the
                \* handler and in load / merge / open / dump
    chart,      \* StockChart: the symbol shown, the rows it holds, and whether a
                \* generate_render worker is pending
    info,       \* CompanyInfo: the symbol whose fundamentals are shown
    notice,     \* the notification label
    workers,    \* fetch_stock_data workers, in the order they were started
                \* (in StoreSpec: one list per app instance)
    current_msg,\* notification_label._current_msg, with the number of the notify call
    timers      \* pending clear_message tasks, oldest first

vars == <<config, children, index, steps, last, value,
          callers, chart, info, notice, workers, current_msg, timers>>

----------------------------------------------------------------------------
(* Program constants *)

\* main.py:281  `if len(history) > 100`
MaxEntries == 100

\* ListView.index is None
NoIndex == -1

\* watchlist.py:148  `event.key in "123456789"`
JumpKeys == 1..9

----------------------------------------------------------------------------
(* Bounds of the model *)

\* initial short histories have at most this many entries
MaxLen == 2
\* histories the Input navigates have at most this many entries
NavLen == 3
\* fetches started in one run
MaxFetches == 2
\* mode switches and resizes in one run of notifications
MaxNotices == 3
\* mode switches and resizes in one run of fetches
MaxRenders == 1
\* writes of the config file that fail in one run of the store
MaxFails == 1
\* operations explored on a long (near-capacity) history
MaxSteps == 1
\* initial long histories have MaxEntries - Slack .. MaxEntries entries
Slack == 1
\* on a long list the cursor is put on the first or last Edge rows
Edge == 2

Tickers == {"AAPL", "MSFT", "GOOG"}

\* what the user may type into the ticker field
RawInputs == {"", "aapl", " msft ", "GOOG"}
\* texts submitted when only submit and pin run
PinInputs == RawInputs \cup {"TSLA"}

----------------------------------------------------------------------------
(* Python list primitives *)

Min(a, b) == IF a < b THEN a ELSE b
Max(a, b) == IF a > b THEN a ELSE b

\* x in seq
Contains(seq, x) == \E i \in 1..Len(seq) : seq[i] = x

\* set(seq)
Symbols(seq) == {seq[i] : i \in 1..Len(seq)}

\* seq.index(x), 0-based; only used where x in seq
ListIndex(seq, x) ==
    (CHOOSE i \in 1..Len(seq) : seq[i] = x /\ \A j \in 1..(i-1) : seq[j] # x) - 1

\* a buggy remove that leaves the list as it is
ListRemoveNothing(seq, x) == seq

\* seq.remove(x): drops the first occurrence (callers guard with `x in seq`)
ListRemove(seq, x) ==
    IF ~Contains(seq, x) THEN seq
    ELSE LET k == ListIndex(seq, x) + 1
         IN SubSeq(seq, 1, k - 1) \o SubSeq(seq, k + 1, Len(seq))

\* seq.insert(i, x) for i >= 0: positions past the end append
ListInsert(seq, i, x) ==
    LET k == Min(Max(i, 0), Len(seq))
    IN SubSeq(seq, 1, k) \o <<x>> \o SubSeq(seq, k + 1, Len(seq))

\* seq.pop(i) for 0 <= i < len(seq): the list that remains
ListPop(seq, i) == SubSeq(seq, 1, i) \o SubSeq(seq, i + 2, Len(seq))

\* a[i], a[j] = a[j], a[i]  (0-based)
ListSwap(seq, i, j) ==
    [k \in 1..Len(seq) |-> IF k = i + 1 THEN seq[j + 1]
                           ELSE IF k = j + 1 THEN seq[i + 1]
                           ELSE seq[k]]

\* list(reversed(seq))
Reversed(seq) == [k \in 1..Len(seq) |-> seq[Len(seq) + 1 - k]]

----------------------------------------------------------------------------
(* Config store *)

DefaultConfig == [history |-> <<>>, pinned |-> <<>>]

\* json.dump of a dict of lists: the JSON object written, each member a
\* name with a JSON array
DumpJson(doc) == [k \in DOMAIN doc |-> [array |-> doc[k]]]

\* json.load of a JSON object: the dict read, each array a list
ParseJson(members) == [k \in DOMAIN members |-> members[k].array]

\* a file holding the text json.dump writes for doc and nothing else, kept as
\* the JSON object that text denotes
JsonFile(doc) == [kind |-> "json", members |-> DumpJson(doc), text |-> <<>>]

\* a file that is absent ("missing") or cannot be opened ("unreadable")
BadFile(kind) == [kind |-> kind, members |-> <<>>, text |-> <<>>]

\* a file with this text that open(CONFIG_PATH, "r") is refused on (its mode
\* gives no read permission)
UnreadableFile(text) == [kind |-> "unreadable", members |-> <<>>, text |-> text]

\* a file given by its text, one character per element
TextFile(text) == [kind |-> "text", members |-> <<>>, text |-> text]

\* the file after open(CONFIG_PATH, "w") created it or emptied a readable one
EmptyFile == TextFile(<<>>)

\* file f after open(CONFIG_PATH, "w"): empty.  A file that is created can
\* be read; one that was there keeps its mode, an unreadable one stays
\* unreadable
Truncated(f) == IF f.kind = "unreadable" THEN UnreadableFile(<<>>) ELSE EmptyFile

\* the quotation mark
Quote == "\""

\* the characters of the strings the store writes: the keys, the value of
\* the unknown key, the ticker symbols
Spell(s) ==
    CASE s = "history" -> <<"h", "i", "s", "t", "o", "r", "y">>
      [] s = "pinned" -> <<"p", "i", "n", "n", "e", "d">>
      [] s = "theme" -> <<"t", "h", "e", "m", "e">>
      [] s = "dark" -> <<"d", "a", "r", "k">>
      [] s = "AAPL" -> <<"A", "A", "P", "L">>
      [] s = "MSFT" -> <<"M", "S", "F", "T">>
      [] s = "TSLA" -> <<"T", "S", "L", "A">>

\* the string with the characters cs
RECURSIVE Unspell(_)
Unspell(cs) == IF cs = <<>> THEN "" ELSE Head(cs) \o Unspell(Tail(cs))

\* json.dump of a string: the string in quotes (the strings of the store
\* need no escape)
StringText(s) == <<Quote>> \o Spell(s) \o <<Quote>>

\* json.dump of the items of a list from item i on, ", " between two items
RECURSIVE ItemsText(_, _)
ItemsText(seq, i) ==
    IF i > Len(seq) THEN <<>>
    ELSE StringText(seq[i]) \o (IF i < Len(seq) THEN <<",", " ">> ELSE <<>>)
         \o ItemsText(seq, i + 1)

\* the keys of a dict in the order json.dump writes them, the order of
\* insertion: load_config's default and every file the store starts from
\* hold history, pinned and then the unknown key, and update() leaves the
\* keys it replaces in their place
KeyOrder(doc) ==
    CASE DOMAIN doc \subseteq {"history", "pinned", "theme"} ->
         SelectSeq(<<"history", "pinned", "theme">>, LAMBDA k : k \in DOMAIN doc)

\* json.dump of the members of doc from key i on: the key, ": ", the array
\* in brackets, ", " between two members
RECURSIVE MembersText(_, _, _)
MembersText(doc, keys, i) ==
    IF i > Len(keys) THEN <<>>
    ELSE StringText(keys[i]) \o <<":", " ", "[">> \o ItemsText(doc[keys[i]], 1) \o <<"]">>
         \o (IF i < Len(keys) THEN <<",", " ">> ELSE <<>>)
         \o MembersText(doc, keys, i + 1)

\* the text json.dump(doc, f) writes
DumpText(doc) == <<"{">> \o MembersText(doc, KeyOrder(doc), 1) \o <<"}">>

\* json.load: the result of reading a value, the position after it
NoValue == [ok |-> FALSE, dict |-> FALSE, value |-> <<>>, next |-> 0]
Value(v, dict, next) == [ok |-> TRUE, dict |-> dict, value |-> v, next |-> next]

\* json.load: the position of the first character from i on that is no space
RECURSIVE SkipSpace(_, _)
SkipSpace(t, i) == IF i <= Len(t) /\ t[i] = " " THEN SkipSpace(t, i + 1) ELSE i

\* the position of the first quotation mark from i on, 0 without one
RECURSIVE QuoteFrom(_, _)
QuoteFrom(t, i) ==
    IF i > Len(t) THEN 0 ELSE IF t[i] = Quote THEN i ELSE QuoteFrom(t, i + 1)

\* json.load of a string that starts at i
ParseString(t, i) ==
    LET e == QuoteFrom(t, i + 1)
    IN IF i <= Len(t) /\ t[i] = Quote /\ e # 0
       THEN Value(Unspell(SubSeq(t, i + 1, e - 1)), FALSE, e + 1)
       ELSE NoValue

\* json.load of the value that starts at i, a string or an array, and of
\* the items of an array from the item at i on
RECURSIVE ParseValue(_, _), ParseItems(_, _, _)
ParseValue(t, i) ==
    CASE i > Len(t) -> NoValue
      [] t[i] = Quote -> ParseString(t, i)
      [] t[i] = "[" ->
           LET j == SkipSpace(t, i + 1)
           IN IF j <= Len(t) /\ t[j] = "]"
              THEN Value(<<>>, FALSE, j + 1) ELSE ParseItems(t, j, <<>>)
      [] OTHER -> NoValue
ParseItems(t, i, items) ==
    LET v == ParseValue(t, i)
        j == SkipSpace(t, v.next)
    IN CASE ~v.ok \/ j > Len(t) -> NoValue
         [] t[j] = "," -> ParseItems(t, SkipSpace(t, j + 1), Append(items, v.value))
         [] t[j] = "]" -> Value(Append(items, v.value), FALSE, j + 1)
         [] OTHER -> NoValue

\* json.load of the members of an object from the key at i on; a key that
\* comes twice keeps its last value
RECURSIVE ParseMembers(_, _, _)
ParseMembers(t, i, doc) ==
    LET k == ParseString(t, i)
        c == SkipSpace(t, k.next)
        v == ParseValue(t, SkipSpace(t, c + 1))
        j == SkipSpace(t, v.next)
        read == [x \in (DOMAIN doc) \cup {k.value} |->
                    IF x = k.value THEN v.value ELSE doc[x]]
    IN CASE ~k.ok \/ c > Len(t) -> NoValue
         [] t[c] # ":" \/ ~v.ok \/ j > Len(t) -> NoValue
         [] t[j] = "," -> ParseMembers(t, SkipSpace(t, j + 1), read)
         [] t[j] = "}" -> Value(read, TRUE, j + 1)
         [] OTHER -> NoValue

\* json.load(f) on text t: an object gives a dict, an array a list; no
\* value, or anything but spaces after the value, raises
JsonLoad(t) ==
    LET i == SkipSpace(t, 1)
        j == SkipSpace(t, i + 1)
        v == CASE i > Len(t) -> NoValue
               [] t[i] = "{" ->
                    IF j <= Len(t) /\ t[j] = "}"
                    THEN Value(<<>>, TRUE, j + 1) ELSE ParseMembers(t, j, <<>>)
               [] OTHER -> ParseValue(t, i)
    IN IF v.ok /\ SkipSpace(t, v.next) > Len(t) THEN v ELSE NoValue

\* load_config() on a file that holds the JSON object of one json.dump, or
\* is missing or unreadable: the value returned, the default without an object
LoadFile(f) ==
    CASE f.kind = "json" -> ParseJson(f.members)
      [] f.kind \in {"missing", "unreadable"} -> DefaultConfig

\* load_config() on a file given by its text: the value json.load reads, a
\* dict or a list, and the default when json.load raises (an empty or
\* unparseable text)
LoadText(f) ==
    IF f.kind = "text"
    THEN LET v == JsonLoad(f.text) IN IF v.ok THEN v.value ELSE DefaultConfig
    ELSE LoadFile(f)

\* is the value load_config() returns a dict (so that .get and .update exist)
LoadsDict(f) ==
    f.kind = "text" => LET v == JsonLoad(f.text) IN v.ok => v.dict

\* does load_config() fall back to the default on file f
Unusable(f) ==
    \/ f.kind \in {"missing", "unreadable"}
    \/ f.kind = "text" /\ ~JsonLoad(f.text).ok

\* load_config()
LoadConfig == LoadFile(config)

\* config.get(key, [])
Get(doc, key) == IF key \in DOMAIN doc THEN doc[key] ELSE <<>>

\* a save that writes the partial document alone
MergeReplace(current, partial) == partial

\* current.update(partial)
Merge(current, partial) ==
    [k \in (DOMAIN current) \cup (DOMAIN partial) |->
        IF k \in DOMAIN partial THEN partial[k] ELSE current[k]]

\* save_config(partial): current = load_config(); current.update(partial); dump
SaveConfig(partial) == Merge(LoadConfig, partial)

\* json.dump(current, f)
WriteConfig(doc) == JsonFile(doc)

history == Get(LoadConfig, "history")
pinned == Get(LoadConfig, "pinned")

----------------------------------------------------------------------------
(* Ticker input *)

\* message.value.strip().upper()
Normalize(raw) ==
    CASE raw = "aapl" -> "AAPL"
      [] raw = " msft " -> "MSFT"
      [] OTHER -> raw

----------------------------------------------------------------------------
(* Watchlist ordering: the list edits of the handlers *)

\* a first-pinned scan that always falls through to len(history)
FirstPinnedIdxAtEnd(h, p) == Len(h)

\* first_pinned_idx: index of the first entry of h that is in p, else len(h)
FirstPinnedIdx(h, p) ==
    IF \E i \in 1..Len(h) : Contains(p, h[i])
    THEN (CHOOSE i \in 1..Len(h) :
             Contains(p, h[i]) /\ \A j \in 1..(i-1) : ~Contains(p, h[j])) - 1
    ELSE Len(h)

\* a cap that lets one entry too many through
EvictLate(h) == IF Len(h) > MaxEntries + 1 THEN ListPop(h, 0) ELSE h

\* if len(history) > 100: history.pop(0)
Evict(h) == IF Len(h) > MaxEntries THEN ListPop(h, 0) ELSE h

\* a submit that re-inserts the symbol even when it is pinned
SubmitHistoryIgnorePinned(h, p, symbol) ==
    LET h1 == ListRemove(h, symbol)
    IN Evict(ListInsert(h1, FirstPinnedIdx(h1, p), symbol))

\* on_input_submitted: the history that is saved
SubmitHistory(h, p, symbol) ==
    IF Contains(p, symbol)
    THEN Evict(h)
    ELSE LET h1 == IF Contains(h, symbol) THEN ListRemove(h, symbol) ELSE h
         IN Evict(ListInsert(h1, FirstPinnedIdx(h1, p), symbol))

\* key "p", pin branch: the lists that are saved
PinLists(h, p, symbol) ==
    LET p1 == Append(p, symbol)
        h1 == IF Contains(h, symbol) THEN ListRemove(h, symbol) ELSE h
    IN [history |-> ListInsert(h1, FirstPinnedIdx(h1, p1), symbol),
        pinned |-> p1]

\* an unpin that leaves the symbol where it is
UnpinListsInPlace(h, p, symbol) == [history |-> h, pinned |-> ListRemove(p, symbol)]

\* key "p", unpin branch: the lists that are saved
UnpinLists(h, p, symbol) ==
    LET p1 == ListRemove(p, symbol)
        h1 == IF Contains(h, symbol) THEN ListRemove(h, symbol) ELSE h
    IN [history |-> ListInsert(h1, FirstPinnedIdx(h1, p1), symbol),
        pinned |-> p1]

\* key "p": toggle
TogglePin(h, p, symbol) ==
    IF Contains(p, symbol) THEN UnpinLists(h, p, symbol) ELSE PinLists(h, p, symbol)

\* key "K": does the handler swap?
MoveUpActs(h, idx) ==
    /\ idx # NoIndex /\ idx > 0
    /\ 0 <= Len(h) - 1 - idx /\ Len(h) - 1 - idx < Len(h) - 1

\* a Shift+Up that swaps with the older neighbour instead of the newer one
MoveUpHistoryWrongWay(h, idx) ==
    LET hist_idx == Len(h) - 1 - idx
    IN IF hist_idx >= 1 THEN ListSwap(h, hist_idx, hist_idx - 1) ELSE h

\* key "K": history[hist_idx], history[hist_idx + 1] swapped
MoveUpHistory(h, idx) ==
    LET hist_idx == Len(h) - 1 - idx IN ListSwap(h, hist_idx, hist_idx + 1)

\* key "J": does the handler swap?  n is len(list_view.children)
MoveDownActs(h, idx, n) ==
    /\ idx # NoIndex /\ idx < n - 1
    /\ 1 <= Len(h) - 1 - idx /\ Len(h) - 1 - idx < Len(h)

\* a move that loses the entry
MoveDownHistoryDrop(h, idx) == ListPop(h, Len(h) - 1 - idx)

\* key "J": history[hist_idx], history[hist_idx - 1] swapped
MoveDownHistory(h, idx) ==
    LET hist_idx == Len(h) - 1 - idx IN ListSwap(h, hist_idx, hist_idx - 1)

\* digit key: does the handler move the entry?
JumpActs(h, current, target) ==
    current # NoIndex /\ target < Len(h) /\ current # target

\* a jump that inserts at len(history) - target_index computed before the pop
JumpHistoryOffByOne(h, current, target) ==
    LET symbol == h[Len(h) - current]
        h1 == ListPop(h, Len(h) - 1 - current)
    IN ListInsert(h1, Len(h) - target, symbol)

\* digit key: pop at the cursor, insert at len(history) - target_index
JumpHistory(h, current, target) ==
    LET symbol == h[Len(h) - current]
        h1 == ListPop(h, Len(h) - 1 - current)
    IN ListInsert(h1, Len(h1) - target, symbol)

\* a delete that also scrubs the symbol from the pin list
DeletePartialScrub(h, symbol) ==
    [history |-> ListRemove(h, symbol), pinned |-> ListRemove(pinned, symbol)]

\* key "d": history.remove(symbol); the partial handed to save_config
DeletePartial(h, symbol) == [history |-> ListRemove(h, symbol)]

\* list_view.index = i on a list of n rows (None when the list is empty)
ValidateIndex(i, n) == IF n = 0 THEN NoIndex ELSE Min(Max(i, 0), n - 1)

----------------------------------------------------------------------------
(* Persisted documents the program starts from *)

\* duplicate-free lists over S with at most n entries
NoDuplicates(l) == Cardinality({l[i] : i \in 1..Len(l)}) = Len(l)

RECURSIVE ListsUpTo(_, _)
ListsUpTo(S, n) ==
    IF n = 0 THEN {<<>>}
    ELSE LET shorter == ListsUpTo(S, n - 1)
             longer == {Append(l, x) : l \in shorter, x \in S}
         IN shorter \cup {l \in longer : NoDuplicates(l)}

\* a symbol the user never types again: the i-th entry of a long history
Filler(i) == "S" \o ToString(i)

\* n entries, oldest first, the newest one a ticker
LongHistory(n) == [i \in 1..n |-> IF i = n THEN "AAPL" ELSE Filler(i)]

\* near-capacity histories
LongHistories == {LongHistory(n) : n \in (MaxEntries - Slack)..MaxEntries}

\* pin lists of a long history: none, the newest entry, all entries
LongPins(h) == {<<>>, <<h[Len(h)]>>, h}

\* no unpinned entry of h is stored after a pinned one
PinBlock(h, p) ==
    \A i, j \in 1..Len(h) : (i < j /\ Contains(p, h[i])) => Contains(p, h[j])

\* every pinned symbol is in h
PinnedPresent(h, p) == \A i \in 1..Len(p) : Contains(h, p[i])

\* short documents as submit and pin alone leave them
ShortDocs ==
    {d \in {[history |-> h, pinned |-> p] :
               h \in ListsUpTo(Tickers, MaxLen), p \in ListsUpTo(Tickers, MaxLen)} :
        PinnedPresent(d.history, d.pinned) /\ PinBlock(d.history, d.pinned)}

LongDocs ==
    UNION {{[history |-> h, pinned |-> p] : p \in LongPins(h)} : h \in LongHistories}

\* is the history a long one (its operations are counted in steps)
Long(h) == Len(h) > Cardinality(PinInputs)

\* rows the cursor is put on
Selectable(n) == {i \in 0..(n - 1) : i < Edge \/ i >= n - Edge}

\* StockChart before any data, the notification label before any message
NoChart == [symbol |-> "", data |-> "", render |-> FALSE, mode |-> "image"]
NoNotice == [kind |-> "none", symbol |-> "", severity |-> ""]

\* _current_msg before any notification
NoMessage == [kind |-> "none", symbol |-> "", id |-> 0]

NoOp == [op |-> "none", symbol |-> "", index |-> NoIndex, key |-> 0,
         history |-> <<>>, pinned |-> <<>>, saved |-> FALSE, fetch |-> "",
         value |-> "", dir |-> "", caller |-> "", file |-> BadFile("missing"),
         worker |-> 0, screen |-> [chart |-> NoChart, info |-> ""],
         timer |-> 0, notice |-> NoNotice]

\* the two callers of the config store
Callers == {"a", "b"}

\* a caller that has not started an operation
IdleCaller == [pc |-> "idle", op |-> "", symbol |-> "",
               doc |-> DefaultConfig, partial |-> [history |-> <<>>],
               current |-> DefaultConfig, found |-> BadFile("missing"),
               wrote |-> FALSE]

\* the thread a call of fetch_stock_data(symbol) starts, before its first step
NewWorker(symbol) ==
    [symbol |-> symbol, pc |-> "sync", outcome |-> "", finviz |-> "", attempts |-> 0,
     handed |-> FALSE]


----------------------------------------------------------------------------
(* State machine *)

\* Watchlist.refresh_list on file f: one row per entry, newest first
RefreshList(f) == Reversed(Get(LoadFile(f), "history"))

\* StockTuiApp.on_mount / Watchlist.on_mount
Init ==
    /\ config \in {JsonFile(d) : d \in ShortDocs \cup LongDocs} \cup {BadFile("missing")}
    /\ children = RefreshList(config)
    /\ index = NoIndex
    /\ steps = 0
    /\ last = NoOp
    /\ value = ""
    /\ callers = [c \in Callers |-> IdleCaller]
    /\ chart = NoChart
    /\ info = ""
    /\ notice = NoNotice
    /\ workers = <<>>
    /\ current_msg = NoMessage
    /\ timers = <<>>

\* h is the history the handler loaded
Counted(h) == Long(h) => steps < MaxSteps
Count(h) == steps' = IF Long(h) THEN steps + 1 ELSE steps

\* the user moves the ListView cursor
Select ==
    /\ \E i \in Selectable(Len(children)) : i # index /\ index' = i
    /\ UNCHANGED <<current_msg, timers>>
    /\ last' = [NoOp EXCEPT !.op = "select"]
    /\ UNCHANGED <<config, children, steps, value>>
    /\ UNCHANGED <<callers, chart, info, notice, workers>>

\* StockTuiApp.on_input_submitted: the history is saved, the list refreshed
\* and fetch_stock_data(symbol) starts a worker
Submit(raw) ==
    \E h \in {history}, p \in {pinned} :
    LET symbol == Normalize(raw)
        doc == WriteConfig(SaveConfig([history |-> SubmitHistory(h, p, symbol)]))
    IN /\ Counted(h) /\ Count(h)
       /\ UNCHANGED <<value, callers, chart, info, notice, current_msg, timers>>
       /\ last' = [NoOp EXCEPT !.op = "submit", !.symbol = symbol,
                               !.history = h, !.pinned = p,
                               !.saved = (symbol # ""),
                               !.fetch = symbol,
                               !.worker = IF symbol # "" THEN Len(workers) + 1 ELSE 0]
       /\ IF symbol # ""
          THEN /\ Len(workers) < MaxFetches
               /\ config' = doc
               /\ children' = RefreshList(doc)
               /\ index' = NoIndex
               /\ workers' = Append(workers, NewWorker(symbol))
          ELSE UNCHANGED <<config, children, index, workers>>

SelectedSymbol == IF index # NoIndex /\ 0 <= index /\ index < Len(children)
                  THEN children[index + 1] ELSE ""

\* Watchlist.on_key, "d" / "delete"
Delete ==
    \E h \in {history}, p \in {pinned} :
    LET symbol == SelectedSymbol
        acts == symbol # "" /\ Contains(h, symbol)
        doc == WriteConfig(SaveConfig(DeletePartial(h, symbol)))
    IN /\ Counted(h) /\ Count(h)
       /\ UNCHANGED <<value, callers, chart, info, notice, workers>>
       /\ UNCHANGED <<current_msg, timers>>
       /\ last' = [NoOp EXCEPT !.op = "delete", !.symbol = symbol, !.index = index,
                               !.history = h, !.pinned = p,
                               !.saved = acts]
       /\ IF acts
          THEN /\ config' = doc
               /\ children' = RefreshList(doc)
               /\ index' = ValidateIndex(Min(index, Len(RefreshList(doc)) - 1),
                                         Len(RefreshList(doc)))
          ELSE UNCHANGED <<config, children, index>>

\* Watchlist.on_key, "K" (Shift+Up)
MoveUp ==
    \E h \in {history}, p \in {pinned} :
    LET acts == MoveUpActs(h, index)
        doc == WriteConfig(SaveConfig([history |-> MoveUpHistory(h, index)]))
    IN /\ Counted(h) /\ Count(h)
       /\ UNCHANGED <<value, callers, chart, info, notice, workers>>
       /\ UNCHANGED <<current_msg, timers>>
       /\ last' = [NoOp EXCEPT !.op = "up", !.symbol = SelectedSymbol, !.index = index,
                               !.history = h, !.pinned = p,
                               !.saved = acts]
       /\ IF acts
          THEN /\ config' = doc
               /\ children' = RefreshList(doc)
               /\ index' = ValidateIndex(index - 1, Len(RefreshList(doc)))
          ELSE UNCHANGED <<config, children, index>>

\* Watchlist.on_key, "J" (Shift+Down)
MoveDown ==
    \E h \in {history}, p \in {pinned} :
    LET acts == MoveDownActs(h, index, Len(children))
        doc == WriteConfig(SaveConfig([history |-> MoveDownHistory(h, index)]))
    IN /\ Counted(h) /\ Count(h)
       /\ UNCHANGED <<value, callers, chart, info, notice, workers>>
       /\ UNCHANGED <<current_msg, timers>>
       /\ last' = [NoOp EXCEPT !.op = "down", !.symbol = SelectedSymbol, !.index = index,
                               !.history = h, !.pinned = p,
                               !.saved = acts]
       /\ IF acts
          THEN /\ config' = doc
               /\ children' = RefreshList(doc)
               /\ index' = ValidateIndex(index + 1, Len(RefreshList(doc)))
          ELSE UNCHANGED <<config, children, index>>

\* Watchlist.on_key, "p"
Pin ==
    \E h \in {history}, p \in {pinned} :
    LET symbol == SelectedSymbol
        acts == symbol # ""
        doc == WriteConfig(SaveConfig(TogglePin(h, p, symbol)))
    IN /\ Counted(h) /\ Count(h)
       /\ UNCHANGED <<value, callers, chart, info, notice, workers>>
       /\ UNCHANGED <<current_msg, timers>>
       /\ last' = [NoOp EXCEPT !.op = IF Contains(p, symbol) THEN "unpin" ELSE "pin",
                               !.symbol = symbol, !.index = index,
                               !.history = h, !.pinned = p,
                               !.saved = acts]
       /\ IF acts
          THEN /\ config' = doc
               /\ children' = RefreshList(doc)
               /\ index' = ValidateIndex(index, Len(RefreshList(doc)))
          ELSE UNCHANGED <<config, children, index>>

\* Watchlist.on_key, "1".."9"
Jump(key) ==
    \E h \in {history}, p \in {pinned} :
    LET target == key - 1
        acts == JumpActs(h, index, target)
        doc == WriteConfig(SaveConfig([history |-> JumpHistory(h, index, target)]))
    IN /\ Counted(h) /\ Count(h)
       /\ UNCHANGED <<value, callers, chart, info, notice, workers>>
       /\ UNCHANGED <<current_msg, timers>>
       /\ last' = [NoOp EXCEPT !.op = "jump", !.symbol = SelectedSymbol, !.index = index,
                               !.key = key,
                               !.history = h, !.pinned = p,
                               !.saved = acts]
       /\ IF acts
          THEN /\ config' = doc
               /\ children' = RefreshList(doc)
               /\ index' = ValidateIndex(target, Len(RefreshList(doc)))
          ELSE UNCHANGED <<config, children, index>>

Next ==
    \/ Select
    \/ \E raw \in RawInputs : Submit(raw)
    \/ Delete
    \/ MoveUp
    \/ MoveDown
    \/ Pin
    \/ \E key \in JumpKeys : Jump(key)

Spec == Init /\ [][Next]_vars

----------------------------------------------------------------------------
(* Submit and pin alone, from an empty watchlist *)

\* short histories that submits build from the empty one
PinHistories == {<<"AAPL", "MSFT">>, <<"AAPL", "MSFT", "GOOG", "TSLA">>}

\* the empty document, and the short and near-capacity documents that submits
\* followed by pins build from it: nothing pinned, the newest entry pinned, or every
\* entry pinned (newest first, which leaves the pin list in reverse order)
PinDocs ==
    {DefaultConfig}
    \cup UNION {{[history |-> h, pinned |-> p] :
                    p \in {<<>>, <<h[Len(h)]>>, Reversed(h)}} :
                 h \in LongHistories \cup PinHistories}

PinInit ==
    /\ config \in {JsonFile(d) : d \in PinDocs} \cup {BadFile("missing")}
    /\ children = RefreshList(config)
    /\ index = NoIndex
    /\ steps = 0
    /\ last = NoOp
    /\ value = ""
    /\ callers = [c \in Callers |-> IdleCaller]
    /\ chart = NoChart
    /\ info = ""
    /\ notice = NoNotice
    /\ workers = <<>>
    /\ current_msg = NoMessage
    /\ timers = <<>>

PinNext ==
    \/ Select
    \/ \E raw \in PinInputs : Submit(raw)
    \/ Pin

PinSpec == PinInit /\ [][PinNext]_vars

----------------------------------------------------------------------------
(* Ticker Input: typing and Up/Down navigation through the history *)

\* " " in event.value, for the texts of RawInputs
HasSpace(text) == text = " msft "

\* StockTuiApp.on_input_changed: a text with a space is cleared
InputChanged(text) == IF HasSpace(text) THEN "" ELSE text

\* a navigation that stops at the ends instead of wrapping around
NavigateHistoryNoWrap(h, text, key) ==
    LET visual_history == Reversed(h)
        current_symbol == Normalize(text)
        current_idx == IF Contains(visual_history, current_symbol)
                       THEN ListIndex(visual_history, current_symbol)
                       ELSE -1
        new_idx == IF key = "up"
                   THEN Max(current_idx - 1, 0)
                   ELSE Min(current_idx + 1, Len(visual_history) - 1)
    IN visual_history[new_idx + 1]

\* StockTuiApp.on_key, Up/Down in the Input, on a non-empty history h:
\* the symbol put into the Input
NavigateHistory(h, text, key) ==
    LET visual_history == Reversed(h)
        current_symbol == Normalize(text)
        current_idx == IF Contains(visual_history, current_symbol)
                       THEN ListIndex(visual_history, current_symbol)
                       ELSE -1
        new_idx == IF key = "up"
                   THEN (current_idx - 1) % Len(visual_history)
                   ELSE (current_idx + 1) % Len(visual_history)
    IN visual_history[new_idx + 1]

\* histories the Input navigates
NavDocs == {[history |-> h, pinned |-> <<>>] : h \in ListsUpTo(Tickers, NavLen)}

NavInit ==
    /\ config \in {JsonFile(d) : d \in NavDocs} \cup {BadFile("missing")}
    /\ children = RefreshList(config)
    /\ index = NoIndex
    /\ steps = 0
    /\ last = NoOp
    /\ value = ""
    /\ callers = [c \in Callers |-> IdleCaller]
    /\ chart = NoChart
    /\ info = ""
    /\ notice = NoNotice
    /\ workers = <<>>
    /\ current_msg = NoMessage
    /\ timers = <<>>

\* the user edits the Input (on_input_changed runs on the new text)
Type(raw) ==
    /\ value' = InputChanged(raw)
    /\ value' # value
    /\ UNCHANGED <<current_msg, timers>>
    /\ last' = [NoOp EXCEPT !.op = "type", !.value = value]
    /\ UNCHANGED <<config, children, index, steps>>
    /\ UNCHANGED <<callers, chart, info, notice, workers>>

\* StockTuiApp.on_key with the Input focused, key "up" or "down": the Input
\* is set to the neighbour and fetch_stock_data(new_symbol) starts a worker
Navigate(key) ==
    \E h \in {history}, p \in {pinned} :
    LET acts == Reversed(h) # <<>>
        new_symbol == NavigateHistory(h, value, key)
    IN /\ last' = [NoOp EXCEPT !.op = "nav", !.dir = key, !.value = value,
                               !.history = h, !.pinned = p,
                               !.symbol = IF acts THEN new_symbol ELSE "",
                               !.fetch = IF acts THEN new_symbol ELSE "",
                               !.worker = IF acts THEN Len(workers) + 1 ELSE 0]
       /\ IF acts
          THEN /\ Len(workers) < MaxFetches
               /\ value' = new_symbol
               /\ workers' = Append(workers, NewWorker(new_symbol))
          ELSE UNCHANGED <<value, workers>>
       /\ UNCHANGED <<config, children, index, steps>>
       /\ UNCHANGED <<callers, chart, info, notice, current_msg, timers>>

NavNext ==
    \/ \E raw \in RawInputs : Type(raw)
    \/ \E key \in {"up", "down"} : Navigate(key)

NavSpec == NavInit /\ [][NavNext]_vars

----------------------------------------------------------------------------
(* Every watchlist operation and the Input navigation, on short watchlists *)

\* texts submitted
FrameInputs == {"", "aapl", "GOOG"}

\* watchlists the operations start from
FrameDocs == {d \in ShortDocs : Symbols(d.history) \subseteq {"AAPL", "MSFT"}}

FrameInit ==
    /\ config \in {JsonFile(d) : d \in FrameDocs} \cup {BadFile("missing")}
    /\ children = RefreshList(config)
    /\ index = NoIndex
    /\ steps = 0
    /\ last = NoOp
    /\ value = ""
    /\ callers = [c \in Callers |-> IdleCaller]
    /\ chart = NoChart
    /\ info = ""
    /\ notice = NoNotice
    /\ workers = <<>>
    /\ current_msg = NoMessage
    /\ timers = <<>>

FrameNext ==
    \/ Select
    \/ \E raw \in FrameInputs : Submit(raw)
    \/ Delete
    \/ MoveUp
    \/ MoveDown
    \/ Pin
    \/ \E key \in JumpKeys : Jump(key)
    \/ \E key \in {"up", "down"} : Navigate(key)

FrameSpec == FrameInit /\ [][FrameNext]_vars

----------------------------------------------------------------------------
(* The worked example: a watchlist of three with the middle entry pinned *)

\* the watchlist of the example, as a submit of GOOG and a move leave it,
\* with and without the pin
ExampleDocs ==
    {[history |-> <<"AAPL", "MSFT", "GOOG">>, pinned |-> p] : p \in {<<>>, <<"MSFT">>}}

\* texts submitted: nothing, or a symbol the watchlist does not hold
ExampleInputs == {"", "TSLA"}

ExampleInit ==
    /\ config \in {JsonFile(d) : d \in ExampleDocs}
    /\ children = RefreshList(config)
    /\ index = NoIndex
    /\ steps = 0
    /\ last = NoOp
    /\ value = ""
    /\ callers = [c \in Callers |-> IdleCaller]
    /\ chart = NoChart
    /\ info = ""
    /\ notice = NoNotice
    /\ workers = <<>>
    /\ current_msg = NoMessage
    /\ timers = <<>>

ExampleNext ==
    \/ Select
    \/ \E raw \in ExampleInputs : Submit(raw)
    \/ MoveUp
    \/ MoveDown
    \/ Pin

ExampleSpec == ExampleInit /\ [][ExampleNext]_vars

----------------------------------------------------------------------------
(* Config store: two app instances running load / merge / write side by side *)
(* on one file.  Each instance has its own ListView, cursor and workers: in  *)
(* this specification children, index and workers hold one value per        *)
(* instance.                                                                 *)

\* a document that also holds a key the program does not know
WithTheme(d) ==
    [k \in (DOMAIN d) \cup {"theme"} |-> IF k = "theme" THEN <<"dark">> ELSE d[k]]

\* persisted documents of the store, with and without the unknown key
StoreDocs ==
    {[history |-> <<"AAPL", "MSFT">>, pinned |-> <<>>],
     WithTheme([history |-> <<"AAPL", "MSFT">>, pinned |-> <<"MSFT">>])}

\* the states the file can be found in when the instances start
StoreFiles ==
    {TextFile(DumpText(d)) : d \in StoreDocs}
    \cup {UnreadableFile(DumpText(d)) : d \in StoreDocs}
    \cup {BadFile("missing")}
    \cup {TextFile(t) : t \in {<<"{">>, <<"[", "]">>}}

\* the symbol each instance submits
StoreSymbols == [a |-> "TSLA", b |-> "MSFT"]

\* the longest text a save of the store writes: three symbols in the history,
\* two pinned, and the unknown key
MaxText == Len(DumpText(WithTheme([history |-> <<"AAPL", "MSFT", "TSLA">>,
                                   pinned |-> <<"AAPL", "MSFT">>])))

\* Watchlist.refresh_list on the text of file f: one row per entry, newest first
RefreshText(f) == Reversed(Get(LoadText(f), "history"))

StoreInit ==
    /\ config \in StoreFiles
    /\ children = [c \in Callers |-> <<>>]
    /\ index = [c \in Callers |-> NoIndex]
    /\ steps = 0
    /\ last = NoOp
    /\ value = ""
    /\ callers = [c \in Callers |-> [IdleCaller EXCEPT !.pc = "off"]]
    /\ chart = NoChart
    /\ info = ""
    /\ notice = NoNotice
    /\ workers = [c \in Callers |-> <<>>]
    /\ current_msg = NoMessage
    /\ timers = <<>>

\* StockTuiApp.on_mount / Watchlist.on_mount of instance c: the config is
\* loaded and refresh_list fills the rows; config.get raises on a list
Mount(c) ==
    /\ callers[c].pc = "off"
    /\ LET dict == LoadsDict(config)
       IN /\ callers' = [callers EXCEPT ![c].pc = IF dict THEN "idle" ELSE "raised"]
          /\ children' = [children EXCEPT ![c] = IF dict THEN RefreshText(config) ELSE @]
    /\ last' = [NoOp EXCEPT !.op = "mount", !.caller = c, !.file = config]
    /\ UNCHANGED <<config, index, steps, value, chart, info, notice, workers,
                   current_msg, timers>>

\* the user of instance c moves the ListView cursor to row i
SelectRow(c, i) ==
    /\ callers[c].pc = "idle"
    /\ i < Len(children[c])
    /\ i # index[c]
    /\ index' = [index EXCEPT ![c] = i]
    /\ last' = [NoOp EXCEPT !.op = "select", !.caller = c, !.index = i]
    /\ UNCHANGED <<config, children, steps, value, callers, chart, info, notice, workers,
                   current_msg, timers>>

\* the lists a handler saves, computed from the document it loaded
HandlerPartial(doc, op, symbol) ==
    IF op = "submit"
    THEN [history |-> SubmitHistory(Get(doc, "history"), Get(doc, "pinned"), symbol)]
    ELSE TogglePin(Get(doc, "history"), Get(doc, "pinned"), symbol)

\* the symbol of the row under the cursor of instance c, "" without one:
\* index is not None and 0 <= index < len(list_view.children)
CursorSymbol(c) ==
    IF index[c] # NoIndex /\ 0 <= index[c] /\ index[c] < Len(children[c])
    THEN children[c][index[c] + 1] ELSE ""

\* on_input_submitted on symbol / Watchlist.on_key "p" on the row under the
\* cursor, up to the call of save_config: config = load_config();
\* config.get(...); edit the lists
HandlerLoad(c, op, symbol) ==
    /\ callers[c].pc = "idle"
    /\ symbol # ""
    /\ callers' =
         [callers EXCEPT ![c] =
            IF LoadsDict(config)
            THEN LET doc == LoadText(config)
                 IN [IdleCaller EXCEPT !.pc = "save", !.op = op, !.symbol = symbol,
                                       !.doc = doc,
                                       !.partial = HandlerPartial(doc, op, symbol)]
            ELSE [IdleCaller EXCEPT !.pc = "raised", !.op = op, !.symbol = symbol]]
    /\ last' = [NoOp EXCEPT !.op = "load", !.caller = c, !.file = config]
    /\ UNCHANGED <<config, children, index, steps, value, chart, info, notice, workers,
                   current_msg, timers>>

\* save_config: current = load_config(); current.update(config)
SaveLoad(c) ==
    /\ callers[c].pc = "save"
    /\ callers' =
         [callers EXCEPT ![c] =
            IF LoadsDict(config)
            THEN [@ EXCEPT !.pc = "open", !.current = LoadText(config)]
            ELSE [@ EXCEPT !.pc = "raised"]]
    /\ last' = [NoOp EXCEPT !.op = "merge", !.caller = c, !.file = config]
    /\ UNCHANGED <<config, children, index, steps, value, chart, info, notice, workers,
                   current_msg, timers>>

\* save_config: open(CONFIG_PATH, "w") leaves the file empty ("ok"), or
\* fails ("unopened"): the failure is logged and save_config returns.  A
\* file that cannot be read may still be opened for writing
SaveOpen(c, outcome) ==
    /\ callers[c].pc = "open"
    /\ config' = IF outcome = "ok" THEN Truncated(config) ELSE config
    /\ callers' = [callers EXCEPT ![c] = [@ EXCEPT !.pc = IF outcome = "ok" THEN "dump"
                                                           ELSE "tail",
                                                     !.found = config]]
    /\ last' = [NoOp EXCEPT !.op = IF outcome = "ok" THEN "open" ELSE "writefail",
                            !.caller = c, !.file = config]
    /\ UNCHANGED <<children, index, steps, value, chart, info, notice, workers,
                   current_msg, timers>>

\* the document save_config merges the partial over: the one it loaded
SavedCurrent(c) == callers[c].current

\* the text of a file after the first n characters of text new were written
\* at offset 0 over text old: what old holds beyond them stays
Overwritten(old, new, n) == SubSeq(new, 1, n) \o SubSeq(old, n + 1, Len(old))

\* save_config: json.dump(current, f) and the close of f write the text at
\* offset 0 of the file as it is by then.  The write ends after n characters:
\* all of them, or fewer when it fails, and the failure is logged
SaveDump(c, n) ==
    LET new == DumpText(Merge(SavedCurrent(c), callers[c].partial))
    IN /\ callers[c].pc = "dump"
       /\ n <= Len(new)
       /\ n < Len(new) => steps < MaxFails
       /\ steps' = IF n < Len(new) THEN steps + 1 ELSE steps
       /\ config' = [config EXCEPT !.text = Overwritten(config.text, new, n)]
       /\ callers' = [callers EXCEPT ![c] = [@ EXCEPT !.pc = "tail",
                                                        !.wrote = (n = Len(new))]]
       /\ last' = [NoOp EXCEPT !.op = IF n = Len(new) THEN "write" ELSE "writefail",
                               !.caller = c, !.file = config]
       /\ UNCHANGED <<children, index, value, chart, info, notice, workers,
                      current_msg, timers>>

\* the rest of the handler after save_config.  on_input_submitted: refresh_list
\* inside try / except, then fetch_stock_data(symbol) starts a worker;
\* "p": refresh_list, then list_view.index = index
HandlerTail(c) ==
    LET submit == callers[c].op = "submit"
        rows == RefreshText(config)
        dict == LoadsDict(config)
    IN /\ callers[c].pc = "tail"
       /\ callers' = [callers EXCEPT ![c].pc = IF dict \/ submit THEN "done" ELSE "raised"]
       /\ children' = [children EXCEPT ![c] = IF dict THEN rows ELSE @]
       /\ index' = [index EXCEPT ![c] =
                      CASE ~dict -> @
                        [] submit -> NoIndex
                        [] OTHER -> ValidateIndex(@, Len(rows))]
       /\ workers' = [workers EXCEPT ![c] =
                        IF submit THEN Append(@, NewWorker(callers[c].symbol)) ELSE @]
       /\ last' = [NoOp EXCEPT !.op = "tail", !.caller = c, !.file = config,
                               !.fetch = IF submit THEN callers[c].symbol ELSE ""]
       /\ UNCHANGED <<config, steps, value, chart, info, notice, current_msg, timers>>

StoreNext ==
    \/ \E c \in Callers : Mount(c)
    \/ \E i \in 0..(MaxLen - 1) : SelectRow("b", i)
    \/ \E c \in Callers : HandlerLoad(c, "submit", StoreSymbols[c])
    \/ HandlerLoad("b", "pin", CursorSymbol("b"))
    \/ \E c \in Callers : SaveLoad(c)
    \/ \E c \in Callers, outcome \in {"ok", "unopened"} : SaveOpen(c, outcome)
    \/ \E c \in Callers, n \in 0..MaxText : SaveDump(c, n)
    \/ \E c \in Callers : HandlerTail(c)

StoreSpec == StoreInit /\ [][StoreNext]_vars

----------------------------------------------------------------------------
(* Notifications and renders: notify, the clear_message task each call     *)
(* starts, and the generate_render worker of the chart                      *)

\* the chart, the fundamentals, the file and the Input before a step
Before(op, w) ==
    [NoOp EXCEPT !.op = op, !.worker = w, !.value = value, !.file = config,
                 !.screen = [chart |-> chart, info |-> info]]


\* self.notify(message, severity=...): the message and its severity
Notify(kind, symbol, severity) == [kind |-> kind, symbol |-> symbol, severity |-> severity]

NoticeInit ==
    /\ config = BadFile("missing")
    /\ children = RefreshList(config)
    /\ index = NoIndex
    /\ steps = 0
    /\ last = NoOp
    /\ value = ""
    /\ callers = [c \in Callers |-> IdleCaller]
    /\ chart = NoChart
    /\ info = ""
    /\ notice = NoNotice
    /\ workers = <<>>
    /\ current_msg = NoMessage
    /\ timers = <<>>

\* is the text of message m the text held in _current_msg
SameMessage(m, c) == m.kind = c.kind /\ m.symbol = c.symbol

\* update_ui of notify: the label shows the message, _current_msg holds it,
\* and a clear_message task is created
UpdateUi(n) ==
    /\ notice' = n
    /\ current_msg' = [kind |-> n.kind, symbol |-> n.symbol, id |-> current_msg.id + 1]
    /\ timers' = Append(timers, current_msg')

\* clear_message of the oldest pending task, after its sleep: the label is
\* blanked when _current_msg equals the task's message (the colour stays)
ClearMessage ==
    /\ timers # <<>>
    /\ notice' = IF SameMessage(Head(timers), current_msg)
                 THEN [kind |-> "none", symbol |-> "", severity |-> notice.severity]
                 ELSE notice
    /\ timers' = Tail(timers)
    /\ last' = [NoOp EXCEPT !.op = "clear", !.timer = Head(timers).id, !.notice = notice]
    /\ UNCHANGED <<config, children, index, steps, value, callers, chart, info, workers,
                   current_msg>>

\* the render modes of the chart: ctrl+h, ctrl+b, ctrl+t
Modes == {"image", "block", "debug"}

\* StockChart.trigger_render: run_worker(self.generate_render(), exclusive=True)
\* leaves one generate_render worker pending
TriggerRender(c) == [c EXCEPT !.render = TRUE]

\* StockChart.set_mode(mode): render_mode is reactive, watch_render_mode
\* calls trigger_render when the value changes
SetMode(c, mode) == IF c.mode # mode THEN TriggerRender([c EXCEPT !.mode = mode]) ELSE c

\* action_toggle_image / action_toggle_block / action_toggle_debug:
\* set_mode(mode), then the notification of the switch
ToggleMode(mode) ==
    /\ chart' = SetMode(chart, mode)
    /\ UpdateUi(Notify(mode, "", "information"))
    /\ steps' = steps + 1
    /\ last' = Before("toggle", 0)
    /\ UNCHANGED <<config, children, index, value, callers, info, workers>>

\* StockChart.on_resize: trigger_render
Resize ==
    /\ chart' = TriggerRender(chart)
    /\ steps' = steps + 1
    /\ last' = Before("resize", 0)
    /\ UNCHANGED <<config, children, index, value, callers, info, notice, workers,
                   current_msg, timers>>

\* StockChart.generate_render, the pending worker: in image mode with rows
\* loaded self.app.notify(f"Generating image for {self.symbol}..."); in block
\* and debug mode, and without rows, nothing is notified
GenerateRender ==
    /\ chart.render
    /\ chart' = [chart EXCEPT !.render = FALSE]
    /\ IF chart.mode = "image" /\ chart.data # ""
       THEN UpdateUi(Notify("generating", chart.symbol, "information"))
       ELSE UNCHANGED <<notice, current_msg, timers>>
    /\ last' = Before("render", 0)
    /\ UNCHANGED <<config, children, index, steps, value, callers, info, workers>>

NoticeNext ==
    \/ \E mode \in Modes : steps < MaxNotices /\ ToggleMode(mode)
    \/ steps < MaxNotices /\ Resize
    \/ GenerateRender
    \/ ClearMessage

NoticeSpec == NoticeInit /\ [][NoticeNext]_vars

----------------------------------------------------------------------------
(* Fetching: fetch_stock_data workers and what they post to the UI *)

\* texts typed into the Input before a fetch
FetchInputs == {"aapl", " msft "}

\* str(e) of the exceptions a download ends with
ErrorTexts == {"no route to host", "timed out"}

\* yf.download: rows with the OHLC columns, an empty frame, a frame without
\* the required columns, or an exception, given by its text
DownloadOutcomes == {"rows", "empty", "columns"} \cup ErrorTexts

\* fetch_finviz_data: a dict of data, or None for an answer other than 200
\* and for an exception, which it catches
FinvizOutcomes == {"data", "unavailable"}

\* str.upper() on the texts the Input can hold: no strip
Upper(text) ==
    CASE text = "aapl" -> "AAPL"
      [] text = " msft " -> " MSFT "
      [] OTHER -> text

\* the chart after the download of symbol ended with outcome:
\* chart_widget.update_data(df, symbol) for rows (the rows, the symbol, and
\* trigger_render), untouched otherwise
ChartAfter(outcome, symbol, c) ==
    IF outcome = "rows"
    THEN TriggerRender([c EXCEPT !.symbol = symbol, !.data = symbol]) ELSE c

\* a result that is applied only when no newer fetch was started
AppliedIfNewest(ws, w, c) ==
    IF w = Len(ws) THEN ChartAfter(ws[w].outcome, ws[w].symbol, c) ELSE c

\* the chart after worker w of ws posts the result of its download: the call
\* of update_data does not look at the other workers
Applied(ws, w, c) == ChartAfter(ws[w].outcome, ws[w].symbol, c)

\* a fundamentals fetch whose failure blanks the panel
InfoAfterBlank(outcome, symbol, i) == IF outcome = "data" THEN symbol ELSE ""

\* the fundamentals panel after fetch_finviz_data(symbol) ended with outcome:
\* info_widget.update_info(finviz_data) for data, untouched otherwise
InfoAfter(outcome, symbol, i) == IF outcome = "data" THEN symbol ELSE i

\* the notification after the download of symbol ended with outcome; the
\* message of the exception branch is f"Fetch Error: {e}": it holds the text
\* of the exception and does not name the symbol
NoticeAfter(outcome, symbol, n) ==
    CASE outcome = "empty" -> Notify("nodata", symbol, "error")
      [] outcome = "columns" -> Notify("invalid", symbol, "error")
      [] outcome \in ErrorTexts -> Notify("fetcherror", outcome, "error")
      [] OTHER -> n

\* does chart c hold the rows and the symbol update_data(df, symbol) gives it
Holds(c, symbol) == c.symbol = symbol /\ c.data = symbol

\* the document a run of fetches starts from
FetchDoc == [history |-> <<"MSFT">>, pinned |-> <<>>]

FetchInit ==
    /\ config = JsonFile(FetchDoc)
    /\ children = RefreshList(config)
    /\ index = NoIndex
    /\ steps = 0
    /\ last = NoOp
    /\ value = ""
    /\ callers = [c \in Callers |-> IdleCaller]
    /\ chart = NoChart
    /\ info = ""
    /\ notice = NoNotice
    /\ workers = <<>>
    /\ current_msg = NoMessage
    /\ timers = <<>>

\* Watchlist.on_list_view_selected: Enter on row i fetches its symbol
SelectFetch(i) ==
    /\ Len(workers) < MaxFetches
    /\ i < Len(children)
    /\ index' = i
    /\ workers' = Append(workers, NewWorker(children[i + 1]))
    /\ last' = [NoOp EXCEPT !.op = "selected", !.symbol = children[i + 1], !.index = i,
                            !.fetch = children[i + 1], !.worker = Len(workers) + 1]
    /\ UNCHANGED <<config, children, steps, value, callers, chart, info, notice,
                   current_msg, timers>>

\* fetch_stock_data, in the worker thread: the text of the Input is read and
\* compared with the symbol, both in upper case
SyncCheck(w) ==
    /\ w \in DOMAIN workers
    /\ workers[w].pc = "sync"
    /\ workers' = [workers EXCEPT ![w].pc = IF Upper(value) # Upper(workers[w].symbol)
                                            THEN "setvalue" ELSE "announce"]
    /\ last' = Before("check", w)
    /\ UNCHANGED <<config, children, index, steps, value, callers, chart, info, notice,
                   current_msg, timers>>

\* fetch_stock_data: call_from_thread(setattr, input_widget, "value", symbol),
\* run by the UI thread on the Input as it is by then
SyncInput(w) ==
    /\ w \in DOMAIN workers
    /\ workers[w].pc = "setvalue"
    /\ value' = workers[w].symbol
    /\ workers' = [workers EXCEPT ![w].pc = "announce"]
    /\ last' = Before("sync", w)
    /\ UNCHANGED <<config, children, index, steps, callers, chart, info, notice,
                   current_msg, timers>>

\* fetch_stock_data: self.notify(f"Fetching {symbol}...")
Announce(w) ==
    /\ w \in DOMAIN workers
    /\ workers[w].pc = "announce"
    /\ UpdateUi(Notify("fetching", workers[w].symbol, "information"))
    /\ workers' = [workers EXCEPT ![w].pc = "download"]
    /\ last' = Before("announce", w)
    /\ UNCHANGED <<config, children, index, steps, value, callers, chart, info>>

\* fetch_stock_data: df = yf.download(symbol, ...)
Download(w, outcome) ==
    /\ w \in DOMAIN workers
    /\ workers[w].pc = "download"
    /\ workers' = [workers EXCEPT ![w] = [@ EXCEPT !.pc = "result", !.outcome = outcome,
                                                    !.attempts = @ + 1]]
    /\ last' = Before("download", w)
    /\ UNCHANGED <<config, children, index, steps, value, callers, chart, info, notice,
                   current_msg, timers>>

\* fetch_stock_data after the download: an error notification and return,
\* or call_from_thread(chart_widget.update_data, df, symbol), which returns
\* to the worker thread once the UI thread has run update_data
Result(w) ==
    LET r == workers[w]
        rows == r.outcome = "rows"
    IN /\ w \in DOMAIN workers
       /\ r.pc = "result"
       /\ chart' = Applied(workers, w, chart)
       /\ IF rows
          THEN UNCHANGED <<notice, current_msg, timers>>
          ELSE UpdateUi(NoticeAfter(r.outcome, r.symbol, notice))
       /\ workers' = [workers EXCEPT ![w] = [@ EXCEPT !.pc = IF rows THEN "start" ELSE "done",
                                                       !.handed = Holds(chart', r.symbol)]]
       /\ last' = Before("result", w)
       /\ UNCHANGED <<config, children, index, steps, value, callers, info>>

\* fetch_stock_data, back in the worker thread: self.fetch_extra_info(symbol)
\* starts the fundamentals worker
StartExtra(w) ==
    /\ w \in DOMAIN workers
    /\ workers[w].pc = "start"
    /\ workers' = [workers EXCEPT ![w].pc = "extra"]
    /\ last' = Before("start", w)
    /\ UNCHANGED <<config, children, index, steps, value, callers, chart, info, notice,
                   current_msg, timers>>


\* fetch_extra_info: the fundamentals are shown, or the warning is notified
ExtraInfo(w, outcome) ==
    LET r == workers[w]
    IN /\ w \in DOMAIN workers
       /\ r.pc = "extra"
       /\ info' = InfoAfter(outcome, r.symbol, info)
       /\ IF outcome = "unavailable"
          THEN UpdateUi(Notify("unavailable", r.symbol, "warning"))
          ELSE UNCHANGED <<notice, current_msg, timers>>
       /\ workers' = [workers EXCEPT ![w].pc = "done", ![w].finviz = outcome]
       /\ last' = Before("extra", w)
       /\ UNCHANGED <<config, children, index, steps, value, callers, chart>>

FetchNext ==
    \/ \E raw \in FetchInputs : Len(workers) < MaxFetches /\ Type(raw)
    \/ Submit(value)
    \/ \E i \in 0..(MaxLen - 1) : SelectFetch(i)
    \/ \E w \in 1..MaxFetches : SyncCheck(w)
    \/ \E w \in 1..MaxFetches : SyncInput(w)
    \/ \E w \in 1..MaxFetches : Announce(w)
    \/ \E w \in 1..MaxFetches, outcome \in DownloadOutcomes : Download(w, outcome)
    \/ \E w \in 1..MaxFetches : Result(w)
    \/ \E w \in 1..MaxFetches : StartExtra(w)
    \/ \E mode \in Modes : steps < MaxRenders /\ ToggleMode(mode)
    \/ steps < MaxRenders /\ Resize
    \/ GenerateRender
    \/ \E w \in 1..MaxFetches, outcome \in FinvizOutcomes : ExtraInfo(w, outcome)
    \/ ClearMessage

FetchSpec == FetchInit /\ [][FetchNext]_vars

----------------------------------------------------------------------------
(* Vocabulary of the properties *)

\* seq without every occurrence of x
Without(seq, x) == SelectSeq(seq, LAMBDA e : e # x)

\* 1-based positions of x in seq
Positions(seq, x) == {i \in 1..Len(seq) : seq[i] = x}

\* x is stored directly before the first entry of h that is in p,
\* or last when no entry of h is in p
DirectlyBeforePinned(h, p, x) ==
    \E k \in Positions(h, x) :
        /\ \A j \in 1..(k - 1) : ~Contains(p, h[j])
        /\ IF \E j \in 1..Len(h) : j # k /\ Contains(p, h[j])
           THEN k < Len(h) /\ Contains(p, h[k + 1])
           ELSE k = Len(h)

\* a submit that got past `if symbol:` and found the symbol not pinned
SubmittedUnpinned ==
    last.op = "submit" /\ last.symbol # "" /\ ~Contains(last.pinned, last.symbol)

----------------------------------------------------------------------------
(* C1..C10 *)

\* C1: the history never holds more than 100 entries, whatever sequence of
\* submit, pin/unpin, move, jump and delete ran on a persisted history of at
\* most 100 entries.
C1_Capacity == Len(history) <= MaxEntries

\* a submit of a new symbol on a full history has run and the history is full
C1_Witness ==
    /\ SubmittedUnpinned
    /\ Len(last.history) = MaxEntries
    /\ ~Contains(last.history, last.symbol)
    /\ Len(history) = MaxEntries

\* C2: when the submit of a symbol that is not in the history makes it longer
\* than 100, exactly one entry goes, it is the entry that was stored at index 0
\* before the submit (pinned or not), and the submitted symbol stays.
C2_EvictsOldest ==
    (/\ SubmittedUnpinned
     /\ ~Contains(last.history, last.symbol)
     /\ Len(last.history) = MaxEntries)
    => /\ Len(history) = MaxEntries
       /\ Contains(history, last.symbol)
       /\ Symbols(history) =
              (Symbols(last.history) \ {last.history[1]}) \cup {last.symbol}

\* C3: right after a pin or an unpin, the pinned symbols present in the history
\* are contiguous and stored after every unpinned symbol.
C3_PinBlockAfterPin ==
    (last.op \in {"pin", "unpin"} /\ last.saved) => PinBlock(history, pinned)

\* C4: when a move, a jump, a delete or a submit completes, the history has all
\* unpinned symbols first and the pinned ones as one block after them.
C4_PinBlockRestored ==
    (last.op \in {"up", "down", "jump", "delete", "submit"} /\ last.saved)
    => PinBlock(history, pinned)

\* C5: every pinned symbol is present in the history, in every reachable state.
C5_PinnedSubset == PinnedPresent(history, pinned)

\* C6: no symbol is stored twice in the history.
C6_Unique == NoDuplicates(history)

\* a submit has taken an unpinned symbol out of the history and put it back
C6_Witness ==
    /\ SubmittedUnpinned
    /\ Contains(last.history, last.symbol)
    /\ history # last.history

\* C7: submitting a pinned symbol leaves the history exactly as it was and
\* still starts the fetch for that symbol.
C7_PinnedSubmit ==
    (last.op = "submit" /\ last.symbol # "" /\ Contains(last.pinned, last.symbol))
    => history = last.history /\ last.fetch = last.symbol /\ last.saved

\* a pinned symbol that is in the history, behind another pinned entry, was
\* submitted
C7_Witness ==
    /\ last.op = "submit" /\ last.symbol # ""
    /\ Contains(last.pinned, last.symbol)
    /\ \E i, j \in 1..Len(last.history) :
          i < j /\ Contains(last.pinned, last.history[i])
                /\ last.history[j] = last.symbol

\* C8: submitting an unpinned symbol takes out its old occurrence and stores it
\* directly before the first pinned entry (last when nothing is pinned); all
\* other symbols keep their relative order.
C8_SubmitBeforePinned ==
    SubmittedUnpinned
    => /\ Cardinality(Positions(history, last.symbol)) = 1
       /\ DirectlyBeforePinned(history, last.pinned, last.symbol)
       /\ \/ Without(history, last.symbol) = Without(last.history, last.symbol)
          \/ /\ Len(last.history) = MaxEntries
             /\ ~Contains(last.history, last.symbol)
             /\ Without(history, last.symbol) = Tail(last.history)

\* C9: with history [AAPL, MSFT, GOOG] and MSFT pinned, submitting TSLA gives
\* [AAPL, GOOG, TSLA, MSFT]: the new symbol directly before a pinned block that
\* trails every unpinned symbol.
C9_Scenario ==
    (/\ last.op = "submit" /\ last.symbol = "TSLA"
     /\ last.history = <<"AAPL", "MSFT", "GOOG">>
     /\ last.pinned = <<"MSFT">>)
    => /\ history = <<"AAPL", "GOOG", "TSLA", "MSFT">>
       /\ PinBlock(history, pinned)

\* C10: pinning an unpinned symbol of the history adds it to the pin list and
\* stores it directly before the first entry that was already pinned, or last
\* when no other entry is pinned ([A, B, C] with no pins becomes [B, C, A] with
\* A pinned); all other symbols keep their relative order.
C10_PinMovesToBlockStart ==
    (last.op = "pin" /\ last.saved /\ Contains(last.history, last.symbol))
    => /\ Symbols(pinned) = Symbols(last.pinned) \cup {last.symbol}
       /\ Cardinality(Positions(history, last.symbol)) = 1
       /\ DirectlyBeforePinned(history, last.pinned, last.symbol)
       /\ Without(history, last.symbol) = Without(last.history, last.symbol)
       /\ (/\ last.history = <<"AAPL", "MSFT", "GOOG">>
           /\ last.pinned = <<>>
           /\ last.symbol = "AAPL")
          => history = <<"MSFT", "GOOG", "AAPL">> /\ pinned = <<"AAPL">>

\* a symbol was pinned while an already pinned entry, not the last one, was in
\* the history
C10_Witness ==
    /\ last.op = "pin" /\ last.saved
    /\ Contains(last.history, last.symbol)
    /\ \E i \in 1..Len(last.history) : Contains(last.pinned, last.history[i])
    /\ history[Len(history)] # last.symbol

----------------------------------------------------------------------------
(* C11..C14: unpin, move, jump, delete *)

\* x is the last entry of h that is not in p
LastUnpinned(h, p, x) ==
    \E k \in Positions(h, x) :
        /\ ~Contains(p, x)
        /\ \A j \in (k + 1)..Len(h) : Contains(p, h[j])

\* C11: unpinning takes the symbol out of the pin list and stores it at the
\* position of the first remaining pinned entry (last when none remains), so
\* that it is the last unpinned entry of the history; all other symbols keep
\* their relative order.
C11_UnpinToBlockStart ==
    (last.op = "unpin" /\ last.saved)
    => /\ Symbols(pinned) = Symbols(last.pinned) \ {last.symbol}
       /\ Cardinality(Positions(history, last.symbol)) = 1
       /\ DirectlyBeforePinned(history, pinned, last.symbol)
       /\ Without(history, last.symbol) = Without(last.history, last.symbol)
       /\ LastUnpinned(history, pinned, last.symbol)

\* storage position (1-based) of the row at display index i of a list of n
StoragePos(n, i) == n - i

\* h2 is h1 with the entries at 1-based positions a and b exchanged
SwappedAt(h1, h2, a, b) ==
    /\ Len(h2) = Len(h1)
    /\ h2[a] = h1[b] /\ h2[b] = h1[a]
    /\ \A k \in 1..Len(h1) : k \notin {a, b} => h2[k] = h1[k]

\* the handler left the document, the rows and the cursor as they were
NothingDone ==
    /\ ~last.saved
    /\ history = last.history /\ pinned = last.pinned
    /\ index = last.index
    /\ children = Reversed(last.history)

\* C12: Shift+Up on display index i > 0 swaps the symbol with its neighbour at
\* the next higher storage index and it ends at display index i-1; Shift+Down
\* on i < n-1 swaps with the next lower storage index and it ends at i+1; the
\* cursor follows the symbol, every other symbol stays in place, and at the
\* first (Up) or last (Down) row nothing changes.
C12_MoveSwapsNeighbour ==
    LET n == Len(last.history)
        i == last.index
        s == StoragePos(n, i)
    IN /\ (last.op = "up" /\ i # NoIndex /\ i > 0)
          => /\ last.saved
             /\ last.history[s] = last.symbol
             /\ SwappedAt(last.history, history, s, s + 1)
             /\ children[i] = last.symbol
             /\ index = i - 1
             /\ pinned = last.pinned
       /\ (last.op = "up" /\ (i = NoIndex \/ i = 0)) => NothingDone
       /\ (last.op = "down" /\ i # NoIndex /\ i < n - 1)
          => /\ last.saved
             /\ last.history[s] = last.symbol
             /\ SwappedAt(last.history, history, s, s - 1)
             /\ children[i + 2] = last.symbol
             /\ index = i + 1
             /\ pinned = last.pinned
       /\ (last.op = "down" /\ (i = NoIndex \/ i >= n - 1)) => NothingDone

\* a Shift+Up or a Shift+Down has just moved a row of a list of three or more
C12_Witness ==
    /\ last.op \in {"up", "down"} /\ last.saved
    /\ Len(history) >= 3
    /\ history # last.history

\* C13: a digit key with target display index t, on a history of n entries with
\* the cursor at c: when t < n and t # c the symbol is taken out and put back so
\* that it is at index t of the reversed history, the other symbols keeping
\* their relative order; when t >= n or t = c the history is unchanged and
\* nothing is saved.
C13_JumpToPosition ==
    LET n == Len(last.history)
        c == last.index
        t == last.key - 1
    IN /\ (last.op = "jump" /\ c # NoIndex /\ t < n /\ t # c)
          => /\ last.saved
             /\ Len(history) = n
             /\ history[StoragePos(n, t)] = last.symbol
             /\ Reversed(history)[t + 1] = last.symbol
             /\ Without(history, last.symbol) = Without(last.history, last.symbol)
             /\ pinned = last.pinned
       /\ (last.op = "jump" /\ (c = NoIndex \/ t >= n \/ t = c)) => NothingDone

\* a row was moved by two or more places
C13_Witness ==
    /\ last.op = "jump" /\ last.saved
    /\ \/ last.key - 1 >= last.index + 2
       \/ last.index >= last.key - 1 + 2

\* C14: delete takes exactly the selected symbol out of the history, keeps the
\* order of the rest and leaves the pin list as it was, also when the deleted
\* symbol is pinned.
C14_DeleteHistoryOnly ==
    (last.op = "delete" /\ last.saved)
    => /\ history = Without(last.history, last.symbol)
       /\ Len(history) = Len(last.history) - 1
       /\ pinned = last.pinned

\* a pinned symbol was deleted and is still in the pin list
C14_Witness ==
    /\ last.op = "delete" /\ last.saved
    /\ Contains(last.pinned, last.symbol)
    /\ Contains(pinned, last.symbol)
    /\ ~Contains(history, last.symbol)

----------------------------------------------------------------------------
(* C15, C16: history navigation from the Input *)

\* the symbol the Input held when Up/Down was pressed
NavCurrent == Normalize(last.value)

\* the history as the navigation sees it: newest first
NavVisual == Reversed(last.history)

\* an Up/Down ran on a non-empty history with the Input's symbol in it / not in it
NavPresent == last.op = "nav" /\ Contains(last.history, NavCurrent)
NavAbsent ==
    last.op = "nav" /\ last.history # <<>> /\ ~Contains(last.history, NavCurrent)

\* C15: with the Input's symbol at display index i of a history of n entries,
\* Down gives the entry at (i+1) mod n and Up the entry at (i-1) mod n: Up from
\* the first display element wraps to the last, Down from the last wraps to the
\* first, and an Up followed by a Down (or a Down by an Up) is back at the
\* starting symbol.
C15_NavigateCircular ==
    NavPresent
    => LET n == Len(NavVisual)
           i == CHOOSE k \in 1..n : NavVisual[k] = NavCurrent
       IN /\ last.dir = "down"
             => /\ value = (IF i = n THEN NavVisual[1] ELSE NavVisual[i + 1])
                /\ NavigateHistory(history, value, "up") = NavCurrent
          /\ last.dir = "up"
             => /\ value = (IF i = 1 THEN NavVisual[n] ELSE NavVisual[i - 1])
                /\ NavigateHistory(history, value, "down") = NavCurrent
          /\ history = last.history
          /\ last.fetch = value

\* Up was pressed on the first display element of a history of two or more
C15_Witness ==
    /\ NavPresent /\ last.dir = "up"
    /\ Len(last.history) >= 2
    /\ NavVisual[1] = NavCurrent
    /\ value = last.history[1]

\* C16: with the Input's symbol absent from a non-empty history, Down gives the
\* first display element (the newest entry) and Up wraps to the last display
\* element (the oldest entry).
C16_NavigateAbsent ==
    NavAbsent
    => /\ last.dir = "down" => value = last.history[Len(last.history)]
       /\ last.dir = "up" => value = last.history[1]

----------------------------------------------------------------------------
(* C17..C19: the config store *)

\* a caller's write of the file has just succeeded
Wrote == last.op = "write"

\* the caller of the last store step
Writer == callers[last.caller]

\* the save that just wrote had the file to itself and met no I/O failure:
\* the file it opened held the document it had loaded, it can be read, and
\* nothing was written between its open and its dump
NoOtherWriter ==
    /\ LoadsDict(Writer.found) /\ LoadText(Writer.found) = Writer.current
    /\ last.file = EmptyFile

\* C17: when a save of partial document P succeeds on a file that still holds
\* the document D the save loaded (no other writer in between), a load
\* returns a document whose keys are those of D and P, with P's value for
\* every key of P and D's value for every other key of D, unknown keys included.
C17_RoundTrip ==
    (Wrote /\ NoOtherWriter)
    => LET D == LoadText(Writer.found)
           P == Writer.partial
       IN /\ LoadsDict(config)
          /\ DOMAIN LoadText(config) = (DOMAIN D) \cup (DOMAIN P)
          /\ \A k \in DOMAIN P : LoadText(config)[k] = P[k]
          /\ \A k \in (DOMAIN D) \ (DOMAIN P) : LoadText(config)[k] = D[k]

\* a submit was saved over a document with an unknown key and a pinned symbol,
\* and the partial changed the history
C17_Witness ==
    /\ Wrote /\ NoOtherWriter
    /\ Writer.op = "submit"
    /\ "theme" \in DOMAIN LoadText(Writer.found)
    /\ LoadText(Writer.found)["pinned"] # <<>>
    /\ LoadText(config)["history"] # LoadText(Writer.found)["history"]

\* C18: load_config returns the default document for a missing, unreadable,
\* empty or unparseable file, and no operation that loads the config fails
\* because of the state of the file.
C18_LoadNeverFails ==
    /\ (last.op = "load" /\ Unusable(last.file))
       => (Writer.pc = "save" /\ Writer.doc = DefaultConfig)
    /\ (last.op = "mount" /\ Unusable(last.file))
       => (Writer.pc = "idle" /\ children[last.caller] = <<>>)
    /\ \A c \in Callers : callers[c].pc # "raised"

\* C19: after every successful write of a file that can be read, a load
\* returns the writer's partial merged over the document that writer read in
\* save_config, whatever the other caller did in between (the last writer
\* wins).
C19_LastWriterWins ==
    (Wrote /\ config.kind = "text")
    => LET R == Writer.current
           P == Writer.partial
       IN /\ DOMAIN LoadText(config) = (DOMAIN R) \cup (DOMAIN P)
          /\ \A k \in DOMAIN P : LoadText(config)[k] = P[k]
          /\ \A k \in (DOMAIN R) \ (DOMAIN P) : LoadText(config)[k] = R[k]

----------------------------------------------------------------------------
(* C20: a fetch that finds no data *)

\* worker w downloaded an empty frame and has returned
NotFound(w) == workers[w].outcome = "empty" /\ workers[w].pc = "done"

\* the last step was a step of fetch_stock_data in worker w
StepOf(w) ==
    last.worker = w
    /\ last.op \in {"check", "sync", "announce", "download", "result", "start"}

\* C20: a request whose download is empty posts the error notification for
\* its symbol and downloads exactly once; no step of its fetch_stock_data
\* call changes the chart's symbol and rows, the fundamentals panel or the
\* persisted lists; and nothing else has changed since the request was
\* issued: in a run whose only request found no data, the chart's symbol and
\* rows, the fundamentals panel and the persisted history and pinned lists
\* are those the run started with.
C20_NotFoundNoChange ==
    /\ \A w \in DOMAIN workers :
          /\ (last.op = "result" /\ last.worker = w /\ workers[w].outcome = "empty")
             => /\ NotFound(w)
                /\ notice = Notify("nodata", workers[w].symbol, "error")
          /\ NotFound(w) => workers[w].attempts = 1
          /\ (StepOf(w) /\ workers[w].outcome \in {"", "empty"})
             => /\ chart = last.screen.chart
                /\ info = last.screen.info
                /\ history = Get(LoadFile(last.file), "history")
                /\ pinned = Get(LoadFile(last.file), "pinned")
    /\ (Len(workers) = 1 /\ NotFound(1))
       => /\ chart.symbol = NoChart.symbol /\ chart.data = NoChart.data
          /\ info = ""
          /\ history = FetchDoc.history
          /\ pinned = FetchDoc.pinned

----------------------------------------------------------------------------
(* C21, C22: fundamentals and the order in which fetch results are applied *)

\* the chart holds the rows and the symbol that update_data(df, symbol) of
\* worker w gave it
Handed(w) == Holds(chart, workers[w].symbol)

\* C21: the fundamentals fetch of a worker is started only for a download
\* with rows and only after update_data of that worker has put its rows and
\* symbol on the chart (by the time the fetch is started another worker's
\* update_data may have replaced them); when the fundamentals are
\* Unavailable the worker posts the warning notification and the chart's
\* rows and symbol and the fundamentals shown before are left as they were.
C21_FundamentalsNeverBlock ==
    \A w \in DOMAIN workers :
        /\ (workers[w].pc \in {"start", "extra"} \/ workers[w].finviz # "")
           => workers[w].outcome = "rows"
        /\ (last.op = "result" /\ last.worker = w /\ workers[w].pc = "start")
           => Handed(w)
        /\ (workers[w].pc = "extra" \/ workers[w].finviz # "")
           => workers[w].handed
        /\ (last.op = "extra" /\ last.worker = w /\ workers[w].finviz = "unavailable")
           => /\ workers[w].pc = "done"
              /\ notice = Notify("unavailable", workers[w].symbol, "warning")
              /\ chart = last.screen.chart
              /\ info = last.screen.info

\* the fundamentals of the second fetch were unavailable while its chart and
\* the fundamentals of the first fetch were on screen
C21_Witness ==
    /\ Len(workers) = 2
    /\ last.op = "extra" /\ last.worker = 2
    /\ workers[2].finviz = "unavailable"
    /\ Handed(2)
    /\ info = workers[1].symbol /\ info # workers[2].symbol

\* C22: the result of a download with rows is put on the chart whenever its
\* worker posts it, whether or not a newer fetch has been requested or has
\* already been applied: no sequence guard stands between a worker and the chart.
C22_NoSequenceGuard ==
    (last.op = "result" /\ workers[last.worker].outcome = "rows")
    => Handed(last.worker)

\* X was requested first and Y second; Y's rows were applied, then X's: the
\* chart shows X although Y was requested last
C22_Witness ==
    /\ Len(workers) = 2
    /\ workers[1].symbol # workers[2].symbol
    /\ workers[2].outcome = "rows" /\ workers[2].pc \in {"start", "extra", "done"}
    /\ last.op = "result" /\ last.worker = 1
    /\ workers[1].outcome = "rows"
    /\ Handed(1)

----------------------------------------------------------------------------
(* C23..C26: submit, notifications, the pinned block, frame conditions *)

\* C23: after a submit of a non-empty symbol, the symbol is in the saved history.
C23_SubmittedPresent ==
    (last.op = "submit" /\ last.symbol # "") => Contains(history, last.symbol)

\* C24: a clear_message task that blanks a label showing a notification is
\* the task of that notification, the latest one; an older task never blanks
\* a newer notification.
C24_TimerClearsOwn ==
    (last.op = "clear" /\ last.notice.kind # "none" /\ notice.kind = "none")
    => last.timer = current_msg.id

\* C25: when only submit and pin/unpin have run since the watchlist was
\* empty, no unpinned entry of the history is stored after a pinned one: the
\* pinned entries that are in the history are one block behind all the others.
C25_BlockFromEmpty == PinBlock(history, pinned)

\* an unpin left two unpinned entries in front of a block of two pinned ones
C25_Witness ==
    /\ last.op = "unpin"
    /\ Len(history) = 4 /\ Len(pinned) = 2
    /\ ~Contains(pinned, history[1]) /\ ~Contains(pinned, history[2])
    /\ history[2] = last.symbol
    /\ Contains(pinned, history[3]) /\ Contains(pinned, history[4])

\* the history after the last operation holds the entries it held before
Permuted == Symbols(history) = Symbols(last.history) /\ Len(history) = Len(last.history)

\* C26: submit, K, J, the digit keys, delete and Up/Down in the Input leave
\* the pin list as it was; K, J, the digit keys and p leave the history a
\* permutation of what it was; Up/Down in the Input leave both lists as they
\* were and, on an empty history, change nothing (no text, no fetch).
C26_FrameConditions ==
    /\ last.op \in {"submit", "up", "down", "jump", "delete", "nav"}
       => pinned = last.pinned
    /\ last.op \in {"up", "down", "jump", "pin", "unpin"} /\ last.symbol # ""
       => Permuted
    /\ last.op = "nav"
       => /\ history = last.history
          /\ children = Reversed(last.history)
          /\ last.history = <<>> => (value = last.value /\ last.fetch = "")

\* a digit key reordered a history of three with a pinned entry in it
C26_Witness ==
    /\ last.op = "jump" /\ last.saved
    /\ Len(last.history) = 3
    /\ history # last.history
    /\ pinned # <<>>

====
